---- MODULE Spec2Model ----
(***************************************************************************)
(* Washington Climate-Fire Risk dashboard (src/streamlit_dashboard.py).    *)
(*                                                                         *)
(* The script is re-run from top to bottom on every widget interaction.    *)
(* The state is the three loaded tables (read-only after load), the widget *)
(* values, and the outputs of the last run of the script.  One action per  *)
(* widget; every action is a full run of the script.                       *)
(*                                                                         *)
(* Representation:                                                         *)
(*   - a data frame is a sequence of rows; a filtered frame is the         *)
(*     sequence of the index labels (positions in the loaded frame) kept;  *)
(*   - a date is <<year, dayOfYear>>;                                      *)
(*   - coordinates are opaque strings, "NaN" for a missing value;          *)
(*   - a GEOID is the sequence of its decimal digits;                      *)
(*   - an optional table is [loaded |-> BOOLEAN, rows |-> sequence].       *)
(***************************************************************************)
EXTENDS Integers, Sequences, FiniteSets, TLC

VARIABLES
    df,                 \* Counties table                     (line 89)
    geojson,            \* sequence of features' properties   (line 90)
    fema_data,          \* Disaster table, or not loaded      (line 91)
    selected_risk,      \* selectbox                          (line 101)
    selected_trend,     \* selectbox                          (line 105)
    min_population,     \* slider                             (line 108)
    show_fema_markers,  \* checkbox                           (line 117)
    fema_year_range,    \* slider value <<lo, hi>>, <<>> when the slider is not drawn
    filtered_df,        \* index labels of the rows kept      (lines 128-133)
    metrics,            \* the metrics row                    (lines 139-169)
    caption,            \* the map caption                    (lines 188-195)
    color_scheme,       \* choropleth palette                 (lines 205-216)
    fill_opacity,       \* choropleth opacity                 (lines 205-216)
    marker_cluster,     \* FEMA cluster layer                 (lines 233-266)
    info_markers,       \* county markers with popups         (lines 269-316)
    reported,           \* counties the run reports as geometry lookup failures
    display_df          \* the ranked table                   (lines 362-385)

vars == <<df, geojson, fema_data, selected_risk, selected_trend, min_population,
          show_fema_markers, fema_year_range, filtered_df, metrics, caption,
          color_scheme, fill_opacity, marker_cluster, info_markers, reported,
          display_df>>

(***************************************************************************)
(* Bounds of the model.                                                    *)
(***************************************************************************)
MaxCounties == 2      \* rows of the Counties table in Spec
MaxFema == 2          \* rows of the Disaster table in SpecFema
MaxCountyFema == 4    \* rows of the Disaster table in SpecRecent
MaxFeatures == 2      \* features of the geometry collection in SpecGeo

(***************************************************************************)
(* Program constants.                                                      *)
(***************************************************************************)
FemaFallbackCount == 211      \* line 149
PopulationStep == 10000       \* line 113
DefaultStartYear == 2015      \* line 124
RecentN == 3                  \* line 277: head(3)

All == "All"
NaN == "NaN"
DefaultLat == "47.5"
DefaultLon == "-120.5"

CaptionStable == "Showing 'Stable' climate counties. Risk scores may still be elevated due to fire history or WUI exposure."
CaptionWarming == "Showing counties with both warming and drying trends - highest climate concern."
CaptionHigh == "Showing high-risk counties (scores 55-100) regardless of climate trend."
CaptionDefault == "Counties colored by Climate-Fire Risk Score. Toggle layers to show FEMA disasters."

RiskCategories == {"Low", "Moderate", "High", "Critical"}
ClimateTrends == {"Stable", "Warming & Drying", "Warming"}

(***************************************************************************)
(* Helpers.                                                                *)
(***************************************************************************)
Min(a, b) == IF a <= b THEN a ELSE b

Range(s) == {s[i] : i \in DOMAIN s}

RECURSIVE SumOver(_, _)
\* pandas Series.sum(): the sum of f over a set of index labels (0 when empty)
SumOver(S, f) ==
    IF S = {} THEN 0
    ELSE LET x == CHOOSE y \in S : TRUE IN f[x] + SumOver(S \ {x}, f)

RECURSIVE Str(_)
\* str(int(x)): the decimal digits of a natural number, no padding
Str(n) == IF n < 10 THEN <<n>> ELSE Str(n \div 10) \o <<n % 10>>

\* a date is <<year, day>>; d1 is strictly later than d2
Later(d1, d2) == d1[1] > d2[1] \/ (d1[1] = d2[1] /\ d1[2] > d2[2])

Year(d) == d[1]

\* Series.round-style formatting f"{x:.0f}" of the quotient num/den (den > 0):
\* round to nearest, ties to even
RoundDiv(num, den) ==
    LET q == num \div den
        r == num % den
    IN  IF 2 * r < den THEN q
        ELSE IF 2 * r > den THEN q + 1
        ELSE IF q % 2 = 0 THEN q ELSE q + 1

\* the index labels of a loaded frame, in order
IndexOf(d) == [i \in 1..Len(d) |-> i]

(***************************************************************************)
(* Sidebar widgets: the values each widget can return.                     *)
(***************************************************************************)
\* line 100: ['All'] + sorted(df['risk_category'].unique())
risk_categories(d) == {All} \cup {d[i].risk_category : i \in DOMAIN d}

\* line 104: ['All'] + sorted(df['climate_trend'].unique())
climate_trends(d) == {All} \cup {d[i].climate_trend : i \in DOMAIN d}

\* int(df['population'].max())
MaxPopulation(d) ==
    CHOOSE m \in {d[i].population : i \in DOMAIN d} :
        \A i \in DOMAIN d : d[i].population <= m

\* lines 108-114: slider from 0 to the largest population in steps of 10000
PopulationSliderValues(d) ==
    {k * PopulationStep : k \in 0..(MaxPopulation(d) \div PopulationStep)}

FemaYears(fema) == {Year(fema.rows[i].declarationDate) : i \in DOMAIN fema.rows}

MinYear(fema) == CHOOSE y \in FemaYears(fema) : \A z \in FemaYears(fema) : y <= z

MaxYear(fema) == CHOOSE y \in FemaYears(fema) : \A z \in FemaYears(fema) : z <= y

\* lines 120-125: the range slider, bounded by the first and last year in the data
YearRangeSliderValues(fema) ==
    {r \in (MinYear(fema)..MaxYear(fema)) \X (MinYear(fema)..MaxYear(fema)) : r[1] <= r[2]}

\* line 124: value=(2015, last year)
DefaultYearRange(fema) == <<DefaultStartYear, MaxYear(fema)>>

\* lines 119-125: the slider is drawn only when the checkbox is set and the
\* table is loaded; a slider that was not drawn in the previous run starts
\* again from its default, otherwise it keeps the value the user gave it
YearRangeFor(show, fema, kept) ==
    IF show /\ fema.loaded
    THEN (IF kept = <<>> THEN DefaultYearRange(fema) ELSE kept)
    ELSE <<>>

(***************************************************************************)
(* Filter (lines 127-133).                                                 *)
(***************************************************************************)
\* the filter without its population predicate (line 133 left out)
ApplyFiltersNoPopulation(d, risk, trend, minpop) ==
    LET KeepRisk(i) == d[i].risk_category = risk
        KeepTrend(i) == d[i].climate_trend = trend
        f0 == IndexOf(d)
        f1 == IF risk # All THEN SelectSeq(f0, KeepRisk) ELSE f0
    IN  IF trend # All THEN SelectSeq(f1, KeepTrend) ELSE f1

ApplyFilters(d, risk, trend, minpop) ==
    LET KeepRisk(i) == d[i].risk_category = risk
        KeepTrend(i) == d[i].climate_trend = trend
        KeepPop(i) == d[i].population >= minpop
        f0 == IndexOf(d)
        f1 == IF risk # All THEN SelectSeq(f0, KeepRisk) ELSE f0
        f2 == IF trend # All THEN SelectSeq(f1, KeepTrend) ELSE f1
    IN  SelectSeq(f2, KeepPop)

(***************************************************************************)
(* Metrics row (lines 139-169).                                            *)
(***************************************************************************)
\* the cards of lines 159-167 computed from filtered_df instead of df
MetricsRowFiltered(d, f, fema) ==
    LET pop == [i \in DOMAIN d |-> d[i].population]
        atRisk == [i \in DOMAIN d |-> d[i].population_at_risk]
        total == SumOver(Range(f), pop)
        risk == SumOver(Range(f), atRisk)
    IN  [high_risk |-> Cardinality({i \in DOMAIN d : d[i].risk_category = "High"}),
         fema_count |-> IF fema.loaded THEN Len(fema.rows) ELSE FemaFallbackCount,
         population |-> total,
         population_at_risk |-> risk,
         wui_pct |-> IF total = 0 THEN 0 ELSE RoundDiv(risk * 100, total)]

\* f, the filtered frame, is not read: every card is computed from df
MetricsRow(d, f, fema) ==
    LET pop == [i \in DOMAIN d |-> d[i].population]
        atRisk == [i \in DOMAIN d |-> d[i].population_at_risk]
        total == SumOver(DOMAIN d, pop)
        risk == SumOver(DOMAIN d, atRisk)
    IN  [high_risk |-> Cardinality({i \in DOMAIN d : d[i].risk_category = "High"}),
         fema_count |-> IF fema.loaded THEN Len(fema.rows) ELSE FemaFallbackCount,
         population |-> total,
         population_at_risk |-> risk,
         wui_pct |-> RoundDiv(risk * 100, total)]

(***************************************************************************)
(* Caption (lines 187-195) and choropleth style (lines 204-216).           *)
(***************************************************************************)
\* the caption chain with the high-risk branch before the warming branch
CaptionHighFirst(trend, risk) ==
    IF trend = "Stable" /\ risk = All THEN CaptionStable
    ELSE IF risk = "High" THEN CaptionHigh
    ELSE IF trend = "Warming & Drying" THEN CaptionWarming
    ELSE CaptionDefault

Caption(trend, risk) ==
    IF trend = "Stable" /\ risk = All THEN CaptionStable
    ELSE IF trend = "Warming & Drying" THEN CaptionWarming
    ELSE IF risk = "High" THEN CaptionHigh
    ELSE CaptionDefault

\* the style chain with the Low branch first
ChoroplethStyleLowFirst(trend, risk) ==
    IF risk = "Low" THEN <<"Greens", "0.6">>
    ELSE IF trend = "Warming & Drying" THEN <<"Reds", "0.8">>
    ELSE IF trend = "Stable" THEN <<"Greens", "0.6">>
    ELSE <<"YlOrRd", "0.7">>

ChoroplethStyle(trend, risk) ==
    IF trend = "Warming & Drying" THEN <<"Reds", "0.8">>
    ELSE IF trend = "Stable" THEN <<"Greens", "0.6">>
    ELSE IF risk = "Low" THEN <<"Greens", "0.6">>
    ELSE <<"YlOrRd", "0.7">>

(***************************************************************************)
(* FEMA cluster layer (lines 232-266).                                     *)
(***************************************************************************)
\* lines 234-237: declaration year within the slider's range, bounds included
InYearRange(row, yr) ==
    Year(row.declarationDate) >= yr[1] /\ Year(row.declarationDate) <= yr[2]

\* line 240: dropna(subset=['lat', 'lon'])
HasCoordinates(row) == row.lat # NaN /\ row.lon # NaN

\* fema_filtered with the upper year bound excluded
FemaFilteredUpperExclusive(fema, yr) ==
    LET Keep(i) == /\ Year(fema.rows[i].declarationDate) >= yr[1]
                   /\ Year(fema.rows[i].declarationDate) < yr[2]
                   /\ HasCoordinates(fema.rows[i])
    IN  SelectSeq(IndexOf(fema.rows), Keep)

\* fema_filtered with dropna(subset=['lat'])
FemaFilteredLatOnly(fema, yr) ==
    LET InRange(i) == InYearRange(fema.rows[i], yr)
        Located(i) == fema.rows[i].lat # NaN
    IN  SelectSeq(SelectSeq(IndexOf(fema.rows), InRange), Located)

\* lines 234-240: fema_filtered, the index labels of the disasters drawn
FemaFiltered(fema, yr) ==
    LET InRange(i) == InYearRange(fema.rows[i], yr)
        Located(i) == HasCoordinates(fema.rows[i])
    IN  SelectSeq(SelectSeq(IndexOf(fema.rows), InRange), Located)

\* lines 233-266: the cluster layer is built only when the checkbox is set and
\* the table is loaded; one point per row of fema_filtered
MarkerCluster(show, fema, yr) ==
    IF show /\ fema.loaded
    THEN [built |-> TRUE, points |-> FemaFiltered(fema, yr)]
    ELSE [built |-> FALSE, points |-> <<>>]

(***************************************************************************)
(* County markers and popups (lines 268-316).                              *)
(***************************************************************************)
\* line 275: fema_data[fema_data['County'] == row['County']]
CountyFema(fema, name) ==
    LET Keep(i) == fema.rows[i].County = name
    IN  SelectSeq(IndexOf(fema.rows), Keep)

RECURSIVE SortDescending(_, _)
\* line 277: sort_values('declarationDate', ascending=False) with pandas'
\* default kind='quicksort', which is not a stable sort: every arrangement of
\* the index labels S with non-increasing dates is a possible result
SortDescending(fema, S) ==
    IF S = {} THEN {<<>>}
    ELSE LET latest == {i \in S : \A j \in S :
                            ~Later(fema.rows[j].declarationDate,
                                   fema.rows[i].declarationDate)}
         IN  UNION {{<<i>> \o rest : rest \in SortDescending(fema, S \ {i})} :
                        i \in latest}

\* the sorted frame without head(n)
HeadAll(s, n) == s

\* DataFrame.head(n)
head(s, n) == SubSeq(s, 1, Min(n, Len(s)))

\* line 277: the possible values of recent_fires for the county called name
RecentFires(fema, name) ==
    {head(s, RecentN) : s \in SortDescending(fema, Range(CountyFema(fema, name)))}

\* line 272: the first feature whose GEOID equals str(int(county_fips)),
\* 0 when the inner loop ends without a match
MatchingFeature(geo, fips) ==
    LET hits == {k \in DOMAIN geo : geo[k].GEOID = Str(fips)}
    IN  IF hits = {} THEN 0 ELSE CHOOSE k \in hits : \A h \in hits : k <= h

\* lines 304-307: properties.get('INTPTLAT', 47.5), .get('INTPTLON', -120.5)
MarkerLocation(props) ==
    <<IF "INTPTLAT" \in DOMAIN props THEN props.INTPTLAT ELSE DefaultLat,
      IF "INTPTLON" \in DOMAIN props THEN props.INTPTLON ELSE DefaultLon>>

\* lines 311-312
MarkerColor(category) ==
    IF category = "High" THEN "darkred"
    ELSE IF category = "Moderate" THEN "orange"
    ELSE "green"

\* the popup text when the Disaster table is not loaded (lines 283-284)
DataNotAvailable == [available |-> FALSE, fires |-> <<>>]

\* lines 273-315: the possible markers for county i matched to feature k
CountyMarkers(d, geo, fema, i, k) ==
    {[county |-> i,
      location |-> MarkerLocation(geo[k]),
      color |-> MarkerColor(d[i].risk_category),
      fema_count_county |-> IF fema.loaded
                            THEN Len(CountyFema(fema, d[i].County)) ELSE 0,
      fires_list |-> fl] :
        fl \in IF fema.loaded
               THEN {[available |-> TRUE, fires |-> rf] :
                        rf \in RecentFires(fema, d[i].County)}
               ELSE {DataNotAvailable}}

RECURSIVE InfoMarkers(_, _, _, _, _)
\* lines 269-316: the possible marker layers for the filtered rows f[n..]:
\* one marker per row with a matching feature (the loop breaks at the first
\* match), nothing for a row without one
InfoMarkers(d, geo, fema, f, n) ==
    IF n > Len(f) THEN {<<>>}
    ELSE LET k == MatchingFeature(geo, d[f[n]].county_fips)
             here == IF k = 0 THEN {<<>>}
                     ELSE {<<m>> : m \in CountyMarkers(d, geo, fema, f[n], k)}
         IN  {h \o t : h \in here, t \in InfoMarkers(d, geo, fema, f, n + 1)}

\* lines 269-316 hold no statement that reports a county without a matching
\* feature: the set of counties reported is empty in every run
LookupFailuresReported(d, geo, f) == {}

(***************************************************************************)
(* Ranked table (lines 359-385).                                           *)
(***************************************************************************)
\* line 369: fema_data.groupby('County').size(), as a function of the name;
\* line 371: a county without a group gets 0
FemaCounts(fema, name) ==
    Cardinality({i \in DOMAIN fema.rows : fema.rows[i].County = name})

\* lines 362-363, 373-377, 385: the risk score and WUI % columns carry values
\* the Counties rows of this model do not hold, and are left out
DisplayColumns ==
    <<"Rank", "County", "Category", "Climate Trend", "Population at Risk">>

\* the table with a Federal Disasters column in both branches, 0 when the
\* Disaster table is not loaded
DisplayTableZeroFilled(d, f, fema) ==
    [columns |-> DisplayColumns \o <<"Federal Disasters">>,
     rows |-> [r \in 1..Len(f) |->
                 [Rank |-> r,
                  County |-> d[f[r]].County,
                  Category |-> d[f[r]].risk_category,
                  Climate_Trend |-> d[f[r]].climate_trend,
                  Population_at_Risk |-> d[f[r]].population_at_risk,
                  Federal_Disasters |-> IF fema.loaded
                                        THEN FemaCounts(fema, d[f[r]].County)
                                        ELSE 0]]]

\* lines 365-385: the table has the Federal Disasters column only when the
\* Disaster table is loaded
DisplayTable(d, f, fema) ==
    IF fema.loaded
    THEN [columns |-> DisplayColumns \o <<"Federal Disasters">>,
          rows |-> [r \in 1..Len(f) |->
                      [Rank |-> r,
                       County |-> d[f[r]].County,
                       Category |-> d[f[r]].risk_category,
                       Climate_Trend |-> d[f[r]].climate_trend,
                       Population_at_Risk |-> d[f[r]].population_at_risk,
                       Federal_Disasters |-> FemaCounts(fema, d[f[r]].County)]]]
    ELSE [columns |-> DisplayColumns,
          rows |-> [r \in 1..Len(f) |->
                      [Rank |-> r,
                       County |-> d[f[r]].County,
                       Category |-> d[f[r]].risk_category,
                       Climate_Trend |-> d[f[r]].climate_trend,
                       Population_at_Risk |-> d[f[r]].population_at_risk]]]

(***************************************************************************)
(* One run of the script with the given widget values.                     *)
(***************************************************************************)
Rerun(risk, trend, minpop, show, yr) ==
    LET f == ApplyFilters(df, risk, trend, minpop)
        style == ChoroplethStyle(trend, risk)
    IN  /\ selected_risk' = risk
        /\ selected_trend' = trend
        /\ min_population' = minpop
        /\ show_fema_markers' = show
        /\ fema_year_range' = yr
        /\ filtered_df' = f
        /\ metrics' = MetricsRow(df, f, fema_data)
        /\ caption' = Caption(trend, risk)
        /\ color_scheme' = style[1]
        /\ fill_opacity' = style[2]
        /\ marker_cluster' = MarkerCluster(show, fema_data, yr)
        /\ info_markers' \in InfoMarkers(df, geojson, fema_data, f, 1)
        /\ reported' = LookupFailuresReported(df, geojson, f)
        /\ display_df' = DisplayTable(df, f, fema_data)
        /\ UNCHANGED <<df, geojson, fema_data>>

\* line 101
SelectRisk ==
    \E r \in risk_categories(df) :
        Rerun(r, selected_trend, min_population, show_fema_markers, fema_year_range)

\* line 105
SelectTrend ==
    \E t \in climate_trends(df) :
        Rerun(selected_risk, t, min_population, show_fema_markers, fema_year_range)

\* lines 108-114
SetMinPopulation ==
    \E p \in PopulationSliderValues(df) :
        Rerun(selected_risk, selected_trend, p, show_fema_markers, fema_year_range)

\* line 117
ToggleFemaMarkers ==
    Rerun(selected_risk, selected_trend, min_population, ~show_fema_markers,
          YearRangeFor(~show_fema_markers, fema_data, fema_year_range))

\* lines 119-125: the slider exists only while it is drawn
SetYearRange ==
    /\ show_fema_markers /\ fema_data.loaded
    /\ \E yr \in YearRangeSliderValues(fema_data) :
          Rerun(selected_risk, selected_trend, min_population, show_fema_markers, yr)

Next ==
    \/ SelectRisk
    \/ SelectTrend
    \/ SetMinPopulation
    \/ ToggleFemaMarkers
    \/ SetYearRange

(***************************************************************************)
(* The first run: the tables as loaded (lines 88-94), every widget at its  *)
(* default value.                                                          *)
(***************************************************************************)
\* the slider of lines 120-125 accepts its default value only when 2015 lies
\* between the first and the last year of the data
SliderAccepts(fema) ==
    fema.loaded => /\ fema.rows # <<>>
                   /\ MinYear(fema) <= DefaultStartYear
                   /\ DefaultStartYear <= MaxYear(fema)

InitWith(counties, disasters, geometries) ==
    /\ df \in counties
    /\ fema_data \in {t \in disasters : SliderAccepts(t)}
    /\ geojson \in geometries
    /\ selected_risk = All
    /\ selected_trend = All
    /\ min_population = 0
    /\ show_fema_markers = TRUE
    /\ fema_year_range = YearRangeFor(TRUE, fema_data, <<>>)
    /\ filtered_df = ApplyFilters(df, All, All, 0)
    /\ metrics = MetricsRow(df, filtered_df, fema_data)
    /\ caption = Caption(All, All)
    /\ color_scheme = ChoroplethStyle(All, All)[1]
    /\ fill_opacity = ChoroplethStyle(All, All)[2]
    /\ marker_cluster = MarkerCluster(TRUE, fema_data, fema_year_range)
    /\ info_markers \in InfoMarkers(df, geojson, fema_data, filtered_df, 1)
    /\ reported = LookupFailuresReported(df, geojson, filtered_df)
    /\ display_df = DisplayTable(df, filtered_df, fema_data)

(***************************************************************************)
(* Input tables.                                                           *)
(***************************************************************************)
SeqsUpTo(S, n) == UNION {[1..k -> S] : k \in 1..n}

Loaded(rows) == [loaded |-> TRUE, rows |-> rows]

NotLoaded == [loaded |-> FALSE, rows |-> <<>>]

CountyNames == <<"Adams", "Benton", "Chelan">>
CountyFips == <<53001, 53005, 53007>>
AtRiskDivisor == <<5, 2, 4>>

CountyRow(i, a) ==
    [county_fips |-> CountyFips[i],
     County |-> CountyNames[i],
     population |-> a.population,
     population_at_risk |-> a.population \div AtRiskDivisor[i],
     risk_category |-> a.risk_category,
     climate_trend |-> a.climate_trend]

CountyAttributes ==
    [risk_category : {"Low", "High"},
     climate_trend : {"Stable", "Warming & Drying"},
     population : {5000, 25000}]

CountyTables ==
    UNION {{[i \in 1..k |-> CountyRow(i, a[i])] : a \in [1..k -> CountyAttributes]} :
              k \in 1..MaxCounties}

\* two counties alike in category and trend, both below the slider's step
TwoCounties ==
    <<CountyRow(1, [risk_category |-> "High", climate_trend |-> "Warming & Drying",
                    population |-> 5000]),
      CountyRow(2, [risk_category |-> "High", climate_trend |-> "Warming & Drying",
                    population |-> 8000])>>

Feature(geoid, lat, lon) == [GEOID |-> geoid, INTPTLAT |-> lat, INTPTLON |-> lon]

WaGeometries ==
    <<Feature(<<5,3,0,0,1>>, "+46.98", "-118.56"),
      Feature(<<5,3,0,0,5>>, "+46.23", "-119.51"),
      Feature(<<5,3,0,0,7>>, "+47.86", "-120.62")>>

FemaRow(county, date, lat, lon) ==
    [County |-> county, declarationDate |-> date, lat |-> lat, lon |-> lon]

TwoDisasters ==
    Loaded(<<FemaRow("Adams", <<DefaultStartYear, 180>>, "46.98", "-118.56"),
             FemaRow("Benton", <<DefaultStartYear + 1, 200>>, NaN, NaN)>>)

FemaRows ==
    {FemaRow(c, d, p[1], p[2]) :
        c \in {"Adams", "Benton"},
        d \in {<<DefaultStartYear, 100>>, <<DefaultStartYear + 1, 50>>},
        p \in {<<"46.98", "-118.56">>, <<NaN, "-118.56">>, <<"46.98", NaN>>}}

FemaTables == {NotLoaded} \cup {Loaded(r) : r \in SeqsUpTo(FemaRows, MaxFema)}

RecentRows ==
    {FemaRow("Adams", d, "46.98", "-118.56") :
        d \in {<<DefaultStartYear - 1, 200>>, <<DefaultStartYear, 100>>}}
        \cup {FemaRow("Benton", <<DefaultStartYear, 100>>, "46.23", "-119.51")}

RecentTables == {Loaded(r) : r \in SeqsUpTo(RecentRows, MaxCountyFema)}

\* a Counties table whose second FIPS code has a leading zero in its 5-digit form
GeoCounties ==
    <<[county_fips |-> 53001, County |-> "Adams", population |-> 20000,
       population_at_risk |-> 5000, risk_category |-> "High",
       climate_trend |-> "Warming & Drying"],
      [county_fips |-> 1001, County |-> "Autauga", population |-> 8000,
       population_at_risk |-> 1000, risk_category |-> "Moderate",
       climate_trend |-> "Stable"],
      [county_fips |-> 53005, County |-> "Benton", population |-> 5000,
       population_at_risk |-> 500, risk_category |-> "Low",
       climate_trend |-> "Stable"]>>

GeoFeatures ==
    {[GEOID |-> g] : g \in {<<5,3,0,0,1>>, <<0,1,0,0,1>>, <<5,3,0,0,5>>}}
        \cup {Feature(g, "+46.98", "-118.56") : g \in {<<5,3,0,0,1>>, <<0,1,0,0,1>>}}
        \cup {[GEOID |-> <<5,3,0,0,1>>, INTPTLAT |-> "+46.98"]}

GeoTables == {<<>>} \cup SeqsUpTo(GeoFeatures, MaxFeatures)

Init == InitWith(CountyTables, {TwoDisasters}, {WaGeometries})

InitFema == InitWith({TwoCounties}, FemaTables, {WaGeometries})

InitRecent == InitWith({TwoCounties}, RecentTables, {WaGeometries})

InitGeo == InitWith({GeoCounties}, {TwoDisasters}, GeoTables)

Spec == Init /\ [][Next]_vars

SpecFema == InitFema /\ [][Next]_vars

SpecRecent == InitRecent /\ [][Next]_vars

SpecGeo == InitGeo /\ [][Next]_vars

(***************************************************************************)
(* Properties.                                                             *)
(***************************************************************************)
Selections == {All} \cup RiskCategories

TrendSelections == {All} \cup ClimateTrends

\* population thresholds below, at and above every population in the data
Thresholds(d) ==
    {0} \cup UNION {{d[i].population, d[i].population + 1} : i \in DOMAIN d}

\* the brute-force reference filter: the rows satisfying all three predicates
ReferenceFilter(d, risk, trend, minpop) ==
    {i \in DOMAIN d : /\ (risk = All \/ d[i].risk_category = risk)
                      /\ (trend = All \/ d[i].climate_trend = trend)
                      /\ d[i].population >= minpop}

Increasing(s) == \A a, b \in DOMAIN s : a < b => s[a] < s[b]

\* C1: for every combination of filter parameters the filtered frame is a
\* sub-frame of the Counties table (rows in their original order, none twice)
\* holding exactly the rows that satisfy the category, trend and population
\* predicates together; a category or trend that no row has gives no rows.
C1_FilterIsConjunction ==
    /\ Increasing(filtered_df)
    /\ Range(filtered_df) =
           ReferenceFilter(df, selected_risk, selected_trend, min_population)
    /\ \A r \in Selections, t \in TrendSelections, p \in Thresholds(df) :
          LET f == ApplyFilters(df, r, t, p)
          IN  /\ Increasing(f)
              /\ Range(f) \subseteq DOMAIN df
              /\ Range(f) = ReferenceFilter(df, r, t, p)
              /\ (r \notin risk_categories(df) \/ t \notin climate_trends(df)) => f = <<>>

\* C1 witness: all three predicates are active and together keep some rows
\* and drop others
C1_Witness ==
    /\ selected_risk # All /\ selected_trend # All /\ min_population > 0
    /\ filtered_df # <<>>
    /\ Len(filtered_df) < Len(df)
    /\ \E i \in DOMAIN df : /\ df[i].risk_category = selected_risk
                             /\ df[i].climate_trend = selected_trend
                             /\ i \notin Range(filtered_df)

\* the rule table of the choropleth style, one row per rule
StyleTable(t, r, style) ==
    /\ t = "Warming & Drying" => style = <<"Reds", "0.8">>
    /\ t = "Stable" => style = <<"Greens", "0.6">>
    /\ (t \notin {"Warming & Drying", "Stable"} /\ r = "Low") => style = <<"Greens", "0.6">>
    /\ (t \notin {"Warming & Drying", "Stable"} /\ r # "Low") => style = <<"YlOrRd", "0.7">>

\* C2: the choropleth style is a total function of (trend, category) with
\* first-match-wins priority: Warming & Drying gives (Reds, 0.8), else Stable
\* gives (Greens, 0.6), else Low gives (Greens, 0.6), else (YlOrRd, 0.7);
\* Warming & Drying with Low gives the warm palette at 0.8.
C2_ChoroplethStyle ==
    /\ StyleTable(selected_trend, selected_risk, <<color_scheme, fill_opacity>>)
    /\ \A t \in TrendSelections, r \in Selections :
          /\ StyleTable(t, r, ChoroplethStyle(t, r))
          /\ ChoroplethStyle(t, r) \in
                {<<"Reds", "0.8">>, <<"Greens", "0.6">>, <<"YlOrRd", "0.7">>}
    /\ ChoroplethStyle("Warming & Drying", "Low") = <<"Reds", "0.8">>

\* C2 witness: rule 1 and rule 3 both apply and rule 1 has won
C2_Witness ==
    /\ selected_trend = "Warming & Drying" /\ selected_risk = "Low"
    /\ color_scheme = "Reds" /\ fill_opacity = "0.8"

\* the caption rules in their priority order
CaptionTable(t, r, c) ==
    /\ (t = "Stable" /\ r = All) => c = CaptionStable
    /\ t = "Warming & Drying" => c = CaptionWarming
    /\ (r = "High" /\ t # "Warming & Drying") => c = CaptionHigh
    /\ (~(t = "Stable" /\ r = All) /\ t # "Warming & Drying" /\ r # "High")
          => c = CaptionDefault

\* C3: for every (trend, category) pair exactly one of the four captions is
\* chosen: (Stable, All) gives the stable-trend advisory; (Warming & Drying,
\* any category) the warming advisory; (any remaining trend, High) the
\* high-risk advisory; every other pair the default caption.
C3_CaptionSelection ==
    /\ CaptionTable(selected_trend, selected_risk, caption)
    /\ \A t \in TrendSelections, r \in Selections :
          /\ CaptionTable(t, r, Caption(t, r))
          /\ Caption(t, r) \in {CaptionStable, CaptionWarming, CaptionHigh, CaptionDefault}
    /\ Cardinality({CaptionStable, CaptionWarming, CaptionHigh, CaptionDefault}) = 4

\* C3 witness: the warming rule and the high-risk rule both apply and the
\* warming advisory is shown
C3_Witness ==
    /\ selected_trend = "Warming & Drying" /\ selected_risk = "High"
    /\ caption = CaptionWarming

RECURSIVE ColumnSum(_, _, _)
\* the sum of column col over the first n rows of frame d
ColumnSum(d, col, n) == IF n = 0 THEN 0 ELSE ColumnSum(d, col, n - 1) + d[n][col]

RECURSIVE FilteredSum(_, _, _, _)
\* the sum of column col over the first n rows of the filtered frame f
FilteredSum(d, f, col, n) ==
    IF n = 0 THEN 0 ELSE FilteredSum(d, f, col, n - 1) + d[f[n]][col]

\* C5 as stated: the total-population and WUI-at-risk cards are sums over
\* the filtered counties.
C5_MetricsOverFiltered ==
    /\ metrics.population =
           FilteredSum(df, filtered_df, "population", Len(filtered_df))
    /\ metrics.population_at_risk =
           FilteredSum(df, filtered_df, "population_at_risk", Len(filtered_df))

\* C5 amended: the total-population card, the WUI-at-risk card and its
\* percentage are sums over the whole Counties table, whatever the filter
\* parameters: they do not change with the filtered set, and when the
\* filtered set is empty they still show the statewide sums.  A population
\* threshold above the largest population keeps no county.
C5_MetricsOverAllCounties ==
    LET total == ColumnSum(df, "population", Len(df))
        atRisk == ColumnSum(df, "population_at_risk", Len(df))
    IN  /\ metrics.population = total
        /\ metrics.population_at_risk = atRisk
        /\ total > 0
        /\ 2 * (metrics.wui_pct * total - 100 * atRisk) \in (0 - total)..total
        /\ \A r \in Selections, t \in TrendSelections :
              ApplyFilters(df, r, t, MaxPopulation(df) + 1) = <<>>

\* C5 witness: the filter keeps no county and the cards show the sums over
\* all counties
C5_Witness ==
    /\ selected_risk # All /\ selected_trend # All
    /\ filtered_df = <<>>
    /\ Len(df) > 1
    /\ metrics.population > df[1].population
    /\ metrics.population_at_risk > 0

\* the all-time number of Disaster rows whose county name is exactly name
AllTimeCount(name) ==
    Cardinality({i \in DOMAIN fema_data.rows : fema_data.rows[i].County = name})

\* the disaster count each county popup shows, by county
PopupCounts ==
    [k \in DOMAIN info_markers |->
        <<info_markers[k].county, info_markers[k].fema_count_county>>]

\* the rows that belong in the cluster layer for the year range yr
PointsFor(yr) ==
    {i \in DOMAIN fema_data.rows :
        /\ fema_data.rows[i].declarationDate[1] \in yr[1]..yr[2]
        /\ fema_data.rows[i].lat # NaN
        /\ fema_data.rows[i].lon # NaN}

\* two consecutive runs that differ in the year range only
OnlyYearRangeChanges ==
    /\ fema_year_range # <<>> /\ fema_year_range' # <<>>
    /\ selected_risk' = selected_risk
    /\ selected_trend' = selected_trend
    /\ min_population' = min_population
    /\ show_fema_markers' = show_fema_markers

\* C4: between two runs that differ only in the year range, every county
\* popup shows the same total disaster count (the all-time count of the
\* county), and the cluster layer holds exactly the located disasters whose
\* declaration year lies in the range, both bounds included, so narrowing the
\* range never adds a point.
C4_YearRangeScopesPointsOnly ==
    [][OnlyYearRangeChanges =>
         /\ PopupCounts' = PopupCounts
         /\ \A k \in DOMAIN info_markers' :
               info_markers'[k].fema_count_county =
                   AllTimeCount(df[info_markers'[k].county].County)
         /\ Range(marker_cluster'.points) = PointsFor(fema_year_range')
         /\ (/\ fema_year_range[1] <= fema_year_range'[1]
             /\ fema_year_range'[2] <= fema_year_range[2])
               => /\ Range(marker_cluster'.points) \subseteq Range(marker_cluster.points)
                  /\ Len(marker_cluster'.points) <= Len(marker_cluster.points)]_vars

\* C4 witness: the range has been narrowed below the default, a located
\* disaster lies outside it and is not drawn, and its county popup counts it
C4_Witness ==
    /\ fema_year_range # <<>>
    /\ fema_year_range[2] < MaxYear(fema_data)
    /\ marker_cluster.points # <<>>
    /\ \E i \in DOMAIN fema_data.rows, k \in DOMAIN info_markers :
          /\ fema_data.rows[i].lat # NaN /\ fema_data.rows[i].lon # NaN
          /\ fema_data.rows[i].declarationDate[1] > fema_year_range[2]
          /\ i \notin Range(marker_cluster.points)
          /\ df[info_markers[k].county].County = fema_data.rows[i].County
          /\ info_markers[k].fema_count_county = Len(fema_data.rows)

\* what C7 states for every run without the Disaster table, except the table
Degraded ==
    /\ metrics.fema_count = FemaFallbackCount
    /\ ~marker_cluster.built /\ marker_cluster.points = <<>>
    /\ Len(info_markers) = Len(filtered_df)
    /\ \A k \in DOMAIN info_markers :
          /\ info_markers[k].fema_count_county = 0
          /\ info_markers[k].fires_list = DataNotAvailable
    /\ Len(display_df.rows) = Len(filtered_df)

\* C7 as stated: without the Disaster table the run completes degraded, and
\* every row of the ranked table has a federal-disaster count of 0.
C7_ZeroFilledColumn ==
    ~fema_data.loaded =>
        /\ Degraded
        /\ "Federal Disasters" \in Range(display_df.columns)
        /\ \A r \in DOMAIN display_df.rows :
              /\ "Federal_Disasters" \in DOMAIN display_df.rows[r]
              /\ display_df.rows[r].Federal_Disasters = 0

\* C7 amended: without the Disaster table the run completes degraded: the
\* total-disaster card shows the fallback constant, no cluster layer is
\* built, every popup shows count 0 and the not-available text, and the
\* ranked table has one row per filtered county and no federal-disaster
\* column at all.
C7_NoDisasterColumn ==
    ~fema_data.loaded =>
        /\ Degraded
        /\ "Federal Disasters" \notin Range(display_df.columns)
        /\ \A r \in DOMAIN display_df.rows :
              "Federal_Disasters" \notin DOMAIN display_df.rows[r]

\* C7 witness: a run after a widget change, without the Disaster table, with
\* markers and table rows to show
C7_Witness ==
    /\ ~fema_data.loaded
    /\ selected_risk # All /\ ~show_fema_markers
    /\ info_markers # <<>>
    /\ display_df.rows # <<>>

\* the number of rows of county name that are not earlier than row i
NotEarlier(name, i) ==
    Cardinality({j \in DOMAIN fema_data.rows \ {i} :
                   /\ fema_data.rows[j].County = name
                   /\ ~Later(fema_data.rows[i].declarationDate,
                             fema_data.rows[j].declarationDate)})

Unlocated(i) == fema_data.rows[i].lat = NaN \/ fema_data.rows[i].lon = NaN

\* C9: a Disaster row without lat or without lon is never a point of the
\* cluster layer, whatever the year range, yet it counts in its county's
\* popup total and in the ranked table's federal-disaster column and is
\* listed among the county's recent disasters whenever fewer than three
\* other rows of the county are as recent; every row with both coordinates
\* and a declaration year in the range is a point when the checkbox is set.
C9_MissingCoordinates ==
    fema_data.loaded =>
        /\ \A i \in Range(marker_cluster.points) : ~Unlocated(i)
        /\ show_fema_markers =>
              /\ marker_cluster.built
              /\ \A i \in DOMAIN fema_data.rows :
                    (/\ ~Unlocated(i)
                     /\ fema_data.rows[i].declarationDate[1] >= fema_year_range[1]
                     /\ fema_data.rows[i].declarationDate[1] <= fema_year_range[2])
                        => i \in Range(marker_cluster.points)
        /\ \A k \in DOMAIN info_markers :
              LET name == df[info_markers[k].county].County
              IN  /\ info_markers[k].fema_count_county = AllTimeCount(name)
                  /\ \A i \in DOMAIN fema_data.rows :
                        (/\ fema_data.rows[i].County = name
                         /\ NotEarlier(name, i) < RecentN)
                            => i \in Range(info_markers[k].fires_list.fires)
        /\ \A r \in DOMAIN display_df.rows :
              display_df.rows[r].Federal_Disasters =
                  AllTimeCount(display_df.rows[r].County)

\* C9 witness: in a run after a widget change, a row without a coordinate,
\* inside the year range, is not drawn while a located row is, and the row is
\* counted and listed in its county's popup and counted in the ranked table
C9_Witness ==
    /\ fema_data.loaded /\ show_fema_markers
    /\ selected_trend # All
    /\ marker_cluster.points # <<>>
    /\ \E i \in DOMAIN fema_data.rows, k \in DOMAIN info_markers,
          r \in DOMAIN display_df.rows :
          /\ fema_data.rows[i].lat # NaN /\ fema_data.rows[i].lon = NaN
          /\ fema_data.rows[i].declarationDate[1] \in
                 fema_year_range[1]..fema_year_range[2]
          /\ i \notin Range(marker_cluster.points)
          /\ df[info_markers[k].county].County = fema_data.rows[i].County
          /\ info_markers[k].fema_count_county = 2
          /\ i \in Range(info_markers[k].fires_list.fires)
          /\ display_df.rows[r].County = fema_data.rows[i].County
          /\ display_df.rows[r].Federal_Disasters = 2

Date(i) == fema_data.rows[i].declarationDate

\* the popups whose recent-disaster list was computed
Popups == {k \in DOMAIN info_markers : info_markers[k].fires_list.available}

Recent(k) == info_markers[k].fires_list.fires

\* C8 as stated: every popup's recent-disaster list has at most three
\* elements, is sorted non-increasing by declaration date with rows of equal
\* date in their input order, and is drawn from the year-filtered rows whose
\* county name equals the county's name.
C8_StableAndYearFiltered ==
    fema_year_range # <<>> =>
        \A k \in Popups :
            /\ Len(Recent(k)) <= RecentN
            /\ \A a, b \in DOMAIN Recent(k) :
                  a < b => /\ ~Later(Date(Recent(k)[b]), Date(Recent(k)[a]))
                           /\ Date(Recent(k)[a]) = Date(Recent(k)[b])
                                 => Recent(k)[a] < Recent(k)[b]
            /\ \A a \in DOMAIN Recent(k) :
                  /\ fema_data.rows[Recent(k)[a]].County =
                         df[info_markers[k].county].County
                  /\ Date(Recent(k)[a])[1] >= fema_year_range[1]
                  /\ Date(Recent(k)[a])[1] <= fema_year_range[2]

\* C8 amended: every popup's recent-disaster list holds the three most
\* recent rows (all of them when the county has fewer) among ALL rows of the
\* Disaster table, of any year, whose county name equals the county's name
\* exactly; no row is listed twice; the list is sorted non-increasing by
\* declaration date, and the order of rows of equal date is not fixed.
C8_RecentTop ==
    \A k \in Popups :
        LET name == df[info_markers[k].county].County
            mine == {i \in DOMAIN fema_data.rows : fema_data.rows[i].County = name}
        IN  /\ Len(Recent(k)) <= RecentN
            /\ Len(Recent(k)) = Min(RecentN, Cardinality(mine))
            /\ Range(Recent(k)) \subseteq mine
            /\ Cardinality(Range(Recent(k))) = Len(Recent(k))
            /\ \A a, b \in DOMAIN Recent(k) :
                  a < b => ~Later(Date(Recent(k)[b]), Date(Recent(k)[a]))
            /\ \A i \in mine \ Range(Recent(k)), a \in DOMAIN Recent(k) :
                  ~Later(Date(i), Date(Recent(k)[a]))

\* C8 witness: a county with more than three disasters, of which three are
\* listed, one of them declared before the year range begins
C8_Witness ==
    /\ fema_year_range # <<>>
    /\ selected_risk # All
    /\ \E k \in Popups :
          /\ info_markers[k].fema_count_county > RecentN
          /\ Len(Recent(k)) = RecentN
          /\ Date(Recent(k)[1]) # Date(Recent(k)[RecentN])
          /\ Date(Recent(k)[RecentN])[1] < fema_year_range[1]

RECURSIVE ZeroPad(_, _)
\* the digits s padded on the left with zeros to n digits
ZeroPad(s, n) == IF Len(s) >= n THEN s ELSE ZeroPad(<<0>> \o s, n)

\* the filtered counties whose 5-digit zero-padded FIPS string is the GEOID
\* of some feature
Joined ==
    SelectSeq(filtered_df,
              LAMBDA i : \E k \in DOMAIN geojson :
                            geojson[k].GEOID = ZeroPad(Str(df[i].county_fips), 5))

\* C6: every filtered county without a matching geometry feature is reported
\* as a lookup failure; its marker is omitted and every other county's
\* marker is produced.
C6_LookupFailureReported ==
    /\ \A i \in Range(filtered_df) :
          MatchingFeature(geojson, df[i].county_fips) = 0 => i \in reported
    /\ \A i \in Range(filtered_df) :
          MatchingFeature(geojson, df[i].county_fips) # 0
              <=> \E k \in DOMAIN info_markers : info_markers[k].county = i

\* C10: the marker layer holds exactly one marker per filtered county whose
\* zero-padded 5-digit FIPS string equals some feature's GEOID, in filtered
\* order, at the first such feature's representative point (47.5, -120.5
\* by default), dark red for High, orange for Moderate, green otherwise.
C10_ZeroPaddedJoin ==
    /\ Len(info_markers) = Len(Joined)
    /\ \A n \in DOMAIN info_markers :
          LET m == info_markers[n]
              hits == {k \in DOMAIN geojson :
                         geojson[k].GEOID = ZeroPad(Str(df[m.county].county_fips), 5)}
          IN  /\ n \in DOMAIN Joined
              /\ m.county = Joined[n]
              /\ hits # {}
              /\ \E k \in hits :
                    /\ \A h \in hits : k <= h
                    /\ m.location[1] = (IF "INTPTLAT" \in DOMAIN geojson[k]
                                         THEN geojson[k].INTPTLAT ELSE "47.5")
                    /\ m.location[2] = (IF "INTPTLON" \in DOMAIN geojson[k]
                                         THEN geojson[k].INTPTLON ELSE "-120.5")
              /\ df[m.county].risk_category = "High" => m.color = "darkred"
              /\ df[m.county].risk_category = "Moderate" => m.color = "orange"
              /\ df[m.county].risk_category \notin {"High", "Moderate"}
                    => m.color = "green"

====
